---- MODULE Spec2Model ----
(***************************************************************************)
(* Model of the finalized-block storage layer                              *)
(* (node/libs/storage/src/block_store/mod.rs): the BlockStore, its         *)
(* in-memory queue, the two frontiers queued_state / persisted_state, the  *)
(* background BlockStoreRunner and the PersistentBlockStore it drains to.  *)
(* and of the validator handshake                                          *)
(* (node/actors/network/src/consensus/handshake/mod.rs): outbound and      *)
(* inbound on the ends of an encrypted stream, each under its deadline.    *)
(***************************************************************************)
EXTENDS Integers, Sequences, FiniteSets, TLC

\* ------------------------------------------------------------------ bounds

\* genesis.fork.first_block of the modelled network.
First == 5
\* How many block numbers (First .. First+MaxBlocks-1) callers may submit.
MaxBlocks == 2
\* How many tasks call queue_block concurrently.
NumQueuers == 2

Numbers == First..(First + MaxBlocks - 1)
\* The numbers a reader may ask for: those above, and one below the first
\* block of the store.
Requested == (First - 1)..(First + MaxBlocks - 1)
\* Tasks 1..NumQueuers call queue_block; task 0 is an observer calling
\* block, wait_until_queued and wait_until_persisted.
Queuers == 1..NumQueuers
Observer == 0
Tasks == Queuers \cup {Observer}
\* Two distinct payloads per block number (competing proposals).
Payloads == {0, 1}

\* Option<T>: None is the empty sequence, Some(x) a one-element sequence.
None == <<>>
Some(x) == <<x>>
IsSome(o) == Len(o) = 1

\* ------------------------------------------------------------- data model

\* BlockHash of a header: deterministic and collision free over the headers
\* of the model (payload < 2, the parent hash is folded in above the number).
ParentCode(p) == IF IsSome(p) THEN p[1] + 1 ELSE 0
Hash(h) == 1 + h.payload + 2 * (h.number + (First + MaxBlocks + 1) * ParentCode(h.parent))
\* A parent hash that is the hash of no header (Hash is always >= 1).
DeadHash == 0

MkHeader(n, p, par) == [number |-> n, payload |-> p, parent |-> par]

\* The canonical chain: payload 0 at every number, the first block parent-less.
RECURSIVE Canon(_)
Canon(n) ==
    IF n = First
    THEN MkHeader(n, 0, None)
    ELSE MkHeader(n, 0, Some(Hash(Canon(n - 1))))

\* The headers for number n that extend the canonical chain: one per payload.
LinkedHeaders(n) == {MkHeader(n, p, Canon(n).parent) : p \in Payloads}

\* A header for number n that does not extend it: an unknown parent for the
\* first number, no parent at all for a later one.
UnlinkedHeader(n) ==
    IF n = First THEN MkHeader(n, 0, Some(DeadHash)) ELSE MkHeader(n, 0, None)

\* CommitQC: carries the header it finalizes; sig_ok stands for the quorum
\* signature verifying against genesis.
MkQC(h, ok) == [header |-> h, sig_ok |-> ok]

\* FinalBlock
MkBlock(h, qc) == [header |-> h, justification |-> qc]

\* The blocks a caller may submit for number n: the linked and the unlinked
\* headers with their own certificate, and the canonical header with a
\* certificate whose signature fails or that certifies another block number.
BlocksAt(n) ==
    {MkBlock(h, MkQC(h, TRUE)) : h \in LinkedHeaders(n) \cup {UnlinkedHeader(n)}}
      \cup {MkBlock(Canon(n), MkQC(Canon(n), FALSE)),
            MkBlock(Canon(n), MkQC(MkHeader(n + 1, 0, Canon(n).parent), TRUE))}
AllBlocks == UNION {BlocksAt(n) : n \in Numbers}

\* FinalBlock::verify(genesis): the justification is for this very header and
\* its quorum signature verifies.
Verify(b) == b.justification.header = b.header /\ b.justification.sig_ok

\* BlockStoreState::contains
Contains(st, number) ==
    IF ~IsSome(st.last) THEN FALSE
    ELSE st.first <= number /\ number <= st.last[1].header.number

\* BlockStoreState::next
NextOf(st) ==
    IF IsSome(st.last) THEN st.last[1].header.number + 1 ELSE st.first

MkState(last) == [first |-> First, last |-> last]

\* ------------------------------------------------------------------ state

VARIABLES
    queued_state,     \* Inner.queued_state: the value held by the watch channel
    queued_version,   \* how often the queued_state watch has notified its subscribers
    persisted_state,  \* Inner.persisted_state
    queue,            \* Inner.queue
    persistent,       \* content of the PersistentBlockStore: blocks First, First+1, ...
    store_calls,      \* every block passed to persistent.store_next_block, in call order
    runner_pc,        \* position of BlockStoreRunner::run
    runner_block,     \* the runner's local `block` (clone of queue[0])
    runner_ret,       \* what run() returned, "none" while it runs
    pc,               \* per task: position inside the BlockStore method it runs
    blk,              \* per task: the `block` argument of a queue_block in progress
    num,              \* per task: the `number` argument of a block / wait_until_* in progress
    ret,              \* per task: what its last finished call returned
    out_args,         \* outbound's arguments: me, genesis, stream, peer
    out_pc,           \* position of outbound
    out_deadline,     \* deadline of outbound's ctx.with_timeout(TIMEOUT)
    out_ret,          \* what outbound returned
    in_args,          \* inbound's arguments: me, genesis, stream
    in_pc,            \* position of inbound
    in_deadline,      \* deadline of inbound's ctx.with_timeout(TIMEOUT)
    in_h,             \* inbound's local `h`, the handshake it received
    in_ret,           \* what inbound returned
    a2b,              \* frames sent by outbound, not yet received
    b2a,              \* frames sent by inbound, not yet received
    now               \* the clock, in seconds

inner == <<queued_state, queued_version, persisted_state, queue>>
store == <<persistent, store_calls>>
runner == <<runner_pc, runner_block, runner_ret>>
tasks == <<pc, blk, num, ret>>
handshake == <<out_args, out_pc, out_deadline, out_ret, in_args, in_pc,
               in_deadline, in_h, in_ret, a2b, b2a, now>>
vars == <<queued_state, queued_version, persisted_state, queue, persistent,
          store_calls, runner_pc, runner_block, runner_ret, pc, blk, num, ret,
          out_args, out_pc, out_deadline, out_ret, in_args, in_pc,
          in_deadline, in_h, in_ret, a2b, b2a, now>>

\* Values of `ret`: the kind of result and the source line that returned it.
NoRet == [kind |-> "none", line |-> 0]
RetOk(l) == [kind |-> "Ok", line |-> l]
RetErr(l) == [kind |-> "Err", line |-> l]
RetCanceled(l) == [kind |-> "Canceled", line |-> l]
\* queue_block's Ok after its critical section; `modified` is what
\* send_if_modified computed there.
RetQueued(m) == [kind |-> "Ok", line |-> 257, modified |-> m]
\* Ok(()) of wait_until_queued / wait_until_persisted called for `number`.
RetWaited(n, l) == [kind |-> "Ok", line |-> l, number |-> n]
\* block's Ok(Option<FinalBlock>).
RetBlock(n, o, l) == [kind |-> "Block", number |-> n, block |-> o, line |-> l]

\* PersistentBlockStore::last
PersistentLast(p) == IF Len(p) = 0 THEN None ELSE Some(p[Len(p)].justification)

\* PersistentBlockStore::block
PersistentBlock(p, number) == p[number - First + 1]

\* What the persistent store may hold when the node starts: nothing, or a
\* verified first block.
InitialStores ==
    {<<>>} \cup {<<MkBlock(h, MkQC(h, TRUE))>> : h \in LinkedHeaders(First)}

\* No handshake is in progress.
HandshakeIdle ==
    /\ out_args = [me |-> "ka", genesis |-> "G1", stream |-> "s1", peer |-> "kb"]
    /\ in_args = [me |-> "kb", genesis |-> "G1", stream |-> "s1"]
    /\ out_pc = "idle"
    /\ in_pc = "idle"
    /\ out_deadline = 0
    /\ in_deadline = 0
    /\ out_ret = [kind |-> "none"]
    /\ in_ret = [kind |-> "none"]
    /\ in_h = None
    /\ a2b = <<>>
    /\ b2a = <<>>
    /\ now = 0

\* BlockStore::new
Init ==
    /\ HandshakeIdle
    /\ persistent \in InitialStores
    /\ queued_state = MkState(PersistentLast(persistent))
    /\ persisted_state = MkState(PersistentLast(persistent))
    /\ queue = <<>>
    /\ queued_version = 0
    /\ store_calls = <<>>
    /\ runner_pc = "wait"
    /\ runner_block = None
    /\ runner_ret = "none"
    /\ pc = [c \in Tasks |-> "idle"]
    /\ blk = [c \in Tasks |-> None]
    /\ num = [c \in Tasks |-> None]
    /\ ret = [c \in Tasks |-> NoRet]

\* The block store as BlockStore::new leaves it over an empty persistent
\* store, with no call in progress.
StoreIdle ==
    /\ persistent = <<>>
    /\ queued_state = MkState(PersistentLast(persistent))
    /\ persisted_state = MkState(PersistentLast(persistent))
    /\ queue = <<>>
    /\ queued_version = 0
    /\ store_calls = <<>>
    /\ runner_pc = "wait"
    /\ runner_block = None
    /\ runner_ret = "none"
    /\ pc = [c \in Tasks |-> "idle"]
    /\ blk = [c \in Tasks |-> None]
    /\ num = [c \in Tasks |-> None]
    /\ ret = [c \in Tasks |-> NoRet]

\* A call of task c ends with result r.
Finish(c, r) ==
    /\ pc' = [pc EXCEPT ![c] = "idle"]
    /\ blk' = [blk EXCEPT ![c] = None]
    /\ num' = [num EXCEPT ![c] = None]
    /\ ret' = [ret EXCEPT ![c] = r]

\* ------------------------------------------------------------ queue_block

\* WaitPassed of a queue_block that does not wait for the predecessors.
WaitPassed_always(qs, number) == TRUE

\* The predicate queue_block waits for.
WaitPassed(qs, number) == NextOf(qs) >= number

\* The block is already in the store (queued or persisted).
IsStale(qs, number) == NextOf(qs) > number

\* ParentMatches without the comparison of the hashes.
ParentMatches_skipped(qs, block) == TRUE

\* "Verify parent hash, if previous block is available."
ParentMatches(qs, block) ==
    IF IsSome(qs.last)
    THEN Some(Hash(qs.last[1].header)) = block.header.parent
    ELSE TRUE

\* StillNext without the re-check: a plain "check then set" across the lock boundary.
StillNext_unchecked(qs, number) == TRUE

\* The re-check inside send_if_modified: "It may happen that the same block
\* is queued_state by 2 calls."
StillNext(qs, number) == NextOf(qs) = number

\* QueueBlockDecide that verifies the block before it looks whether it is stale.
QueueBlockDecide_verify_first(c, block) ==
    LET number == block.header.number
    IN IF ~Verify(block) THEN Finish(c, RetErr(229))
       ELSE IF IsStale(queued_state, number) THEN Finish(c, RetOk(227))
       ELSE IF ~ParentMatches(queued_state, block) THEN Finish(c, RetErr(233))
       ELSE /\ pc' = [pc EXCEPT ![c] = "q_commit"]
            /\ blk' = [blk EXCEPT ![c] = Some(block)]
            /\ ret' = [ret EXCEPT ![c] = NoRet]
            /\ num' = num

\* QueueBlockDecide without block.verify.
QueueBlockDecide_unverified(c, block) ==
    LET number == block.header.number
    IN IF IsStale(queued_state, number) THEN Finish(c, RetOk(227))
       ELSE IF ~ParentMatches(queued_state, block) THEN Finish(c, RetErr(233))
       ELSE /\ pc' = [pc EXCEPT ![c] = "q_commit"]
            /\ blk' = [blk EXCEPT ![c] = Some(block)]
            /\ ret' = [ret EXCEPT ![c] = NoRet]
            /\ num' = num

\* What queue_block does with the borrow of queued_state that wait_for
\* returned: the stale check, block.verify and the parent check run on that
\* one borrow, without awaiting.
QueueBlockDecide(c, block) ==
    LET number == block.header.number
    IN IF IsStale(queued_state, number) THEN Finish(c, RetOk(227))
       ELSE IF ~Verify(block) THEN Finish(c, RetErr(229))
       ELSE IF ~ParentMatches(queued_state, block) THEN Finish(c, RetErr(233))
       ELSE /\ pc' = [pc EXCEPT ![c] = "q_commit"]
            /\ blk' = [blk EXCEPT ![c] = Some(block)]
            /\ ret' = [ret EXCEPT ![c] = NoRet]
            /\ num' = num

\* Task c calls queue_block(block): wait_for returns at once when its
\* predicate already holds, and suspends the call otherwise.
QueueBlockCall(c, block) ==
    /\ pc[c] = "idle"
    /\ IF WaitPassed(queued_state, block.header.number)
       THEN QueueBlockDecide(c, block)
       ELSE /\ pc' = [pc EXCEPT ![c] = "q_wait"]
            /\ blk' = [blk EXCEPT ![c] = Some(block)]
            /\ ret' = [ret EXCEPT ![c] = NoRet]
            /\ num' = num
    /\ UNCHANGED <<inner, store, runner, handshake>>

\* A suspended queue_block is woken by a change of queued_state that makes
\* its predicate hold.
QueueBlockResume(c) ==
    /\ pc[c] = "q_wait"
    /\ WaitPassed(queued_state, blk[c][1].header.number)
    /\ QueueBlockDecide(c, blk[c][1])
    /\ UNCHANGED <<inner, store, runner, handshake>>

\* QueueBlockCommit in which a block that finds its number taken replaces
\* the block queued last.
QueueBlockCommit_overwrite(c) ==
    /\ pc[c] = "q_commit"
    /\ LET block == blk[c][1]
           number == block.header.number
       IN IF StillNext(queued_state, number)
          THEN /\ queued_state' = [queued_state EXCEPT !.last = Some(block.justification)]
               /\ queued_version' = queued_version + 1
               /\ queue' = Append(queue, block)
               /\ Finish(c, RetQueued(TRUE))
          ELSE IF queue # <<>> /\ queue[Len(queue)].header.number = number
          THEN /\ queued_state' = [queued_state EXCEPT !.last = Some(block.justification)]
               /\ queued_version' = queued_version + 1
               /\ queue' = [queue EXCEPT ![Len(queue)] = block]
               /\ Finish(c, RetQueued(TRUE))
          ELSE /\ UNCHANGED <<queued_state, queued_version, queue>>
               /\ Finish(c, RetQueued(FALSE))
    /\ UNCHANGED <<persisted_state, store, runner, handshake>>

\* self.inner.send_if_modified(...): one critical section on Inner.
QueueBlockCommit(c) ==
    /\ pc[c] = "q_commit"
    /\ LET block == blk[c][1]
           number == block.header.number
       IN IF StillNext(queued_state, number)
          THEN /\ queued_state' = [queued_state EXCEPT !.last = Some(block.justification)]
               /\ queued_version' = queued_version + 1
               /\ queue' = Append(queue, block)
               /\ Finish(c, RetQueued(TRUE))
          ELSE /\ UNCHANGED <<queued_state, queued_version, queue>>
               /\ Finish(c, RetQueued(FALSE))
    /\ UNCHANGED <<persisted_state, store, runner, handshake>>

\* ------------------------------------------------------- BlockStoreRunner

\* RunResult that reports a cancellation as a failure.
RunResult_cancel_is_error(res) == IF res = "Ok" THEN "Ok" ELSE "Err"

\* The final match of run(): what the loop ended with, turned into the
\* anyhow::Result that run() returns.
RunResult(res) ==
    CASE res \in {"Ok", "Canceled"} -> "Ok"
      [] res = "Internal" -> "Err"

\* RunnerTake that takes the newest block of the queue instead of the oldest.
RunnerTake_back ==
    /\ runner_pc = "wait"
    /\ queue # <<>>
    /\ runner_block' = Some(queue[Len(queue)])
    /\ store_calls' = Append(store_calls, queue[Len(queue)])
    /\ runner_pc' = "storing"
    /\ UNCHANGED <<inner, persistent, runner_ret, tasks, handshake>>

\* RunnerTake that advances persisted_state before the persistent store has
\* answered.
RunnerTake_eager ==
    /\ runner_pc = "wait"
    /\ queue # <<>>
    /\ runner_block' = Some(queue[1])
    /\ store_calls' = Append(store_calls, queue[1])
    /\ runner_pc' = "storing"
    /\ persisted_state' = [persisted_state EXCEPT !.last = Some(queue[1].justification)]
    /\ UNCHANGED <<queued_state, queued_version, queue, persistent, runner_ret, tasks, handshake>>

\* wait_for(!queue.is_empty()), clone queue[0], call store_next_block.
RunnerTake ==
    /\ runner_pc = "wait"
    /\ queue # <<>>
    /\ runner_block' = Some(queue[1])
    /\ store_calls' = Append(store_calls, queue[1])
    /\ runner_pc' = "storing"
    /\ UNCHANGED <<inner, persistent, runner_ret, tasks, handshake>>

\* store_next_block returns Ok: the block is durable.
StoreOk ==
    /\ runner_pc = "storing"
    /\ persistent' = Append(persistent, runner_block[1])
    /\ runner_pc' = "stored"
    /\ UNCHANGED <<inner, store_calls, runner_block, runner_ret, tasks, handshake>>

\* StoreFail that drops the block it could not store from the queue.
StoreFail_drops ==
    /\ runner_pc = "storing"
    /\ runner_pc' = "failed"
    /\ runner_ret' = RunResult("Internal")
    /\ queue' = Tail(queue)
    /\ UNCHANGED <<queued_state, queued_version, persisted_state, store,
                   runner_block, tasks, handshake>>

\* store_next_block returns an internal error: run() returns Err.
StoreFail ==
    /\ runner_pc = "storing"
    /\ runner_pc' = "failed"
    /\ runner_ret' = RunResult("Internal")
    /\ UNCHANGED <<inner, store, runner_block, tasks, handshake>>

\* The runner's context is canceled while it waits for a block or for the
\* persistent store: run() returns Ok.
RunnerCancel ==
    /\ runner_pc \in {"wait", "storing"}
    /\ runner_pc' = "canceled"
    /\ runner_ret' = RunResult("Canceled")
    /\ UNCHANGED <<inner, store, runner_block, tasks, handshake>>

\* RunnerCommit that pops the queue without advancing persisted_state.
RunnerCommit_no_advance ==
    /\ runner_pc = "stored"
    /\ queue' = IF queue = <<>> THEN queue ELSE Tail(queue)
    /\ runner_pc' = "wait"
    /\ runner_block' = None
    /\ UNCHANGED <<queued_state, queued_version, persisted_state, store, runner_ret, tasks, handshake>>

\* RunnerCommit that forgets queue.pop_front().
RunnerCommit_no_pop ==
    /\ runner_pc = "stored"
    /\ persisted_state' = [persisted_state EXCEPT !.last = Some(runner_block[1].justification)]
    /\ runner_pc' = "wait"
    /\ runner_block' = None
    /\ UNCHANGED <<queued_state, queued_version, queue, store, runner_ret, tasks, handshake>>

\* self.inner.send_modify(...): advance persisted_state and pop the queue.
\* The debug_assert_eq of the source is not assumed here; that the block's
\* number is persisted_state.next() is a property checked of the runner.
RunnerCommit ==
    /\ runner_pc = "stored"
    /\ persisted_state' = [persisted_state EXCEPT !.last = Some(runner_block[1].justification)]
    /\ queue' = IF queue = <<>> THEN queue ELSE Tail(queue)
    /\ runner_pc' = "wait"
    /\ runner_block' = None
    /\ UNCHANGED <<queued_state, queued_version, store, runner_ret, tasks, handshake>>

\* ------------------------------------------------------------------ block

\* QueueGet that counts the queue from 1.
QueueGet_one_based(q, idx) == IF 0 < idx /\ idx <= Len(q) THEN Some(q[idx]) ELSE None

\* VecDeque::get
QueueGet(q, idx) == IF 0 <= idx /\ idx < Len(q) THEN Some(q[idx + 1]) ELSE None

\* QueueIndex counted from the first block of the store instead of the first
\* block of the queue.
QueueIndex_from_first(ps, number) == number - ps.first

\* Index of block `number` in the queue.
QueueIndex(ps, number) == number - NextOf(ps)

\* block(number), up to the point where the borrow of Inner is released:
\* answered from the range check or from the queue, or left to the
\* persistent store.
BlockCall(c, number) ==
    /\ pc[c] = "idle"
    /\ IF ~Contains(queued_state, number)
       THEN Finish(c, RetBlock(number, None, 191))
       ELSE IF ~Contains(persisted_state, number)
       THEN Finish(c, RetBlock(number,
                               QueueGet(queue, QueueIndex(persisted_state, number)), 197))
       ELSE /\ pc' = [pc EXCEPT ![c] = "b_read"]
            /\ num' = [num EXCEPT ![c] = Some(number)]
            /\ ret' = [ret EXCEPT ![c] = NoRet]
            /\ blk' = blk
    /\ UNCHANGED <<inner, store, runner, handshake>>

\* self.persistent.block(ctx, number) returns.
BlockRead(c) ==
    /\ pc[c] = "b_read"
    /\ LET number == num[c][1]
       IN IF number - First + 1 \in 1..Len(persistent)
          THEN Finish(c, RetBlock(number, Some(PersistentBlock(persistent, number)), 207))
          ELSE Finish(c, RetErr(205))
    /\ UNCHANGED <<inner, store, runner, handshake>>

\* ------------------------------------------------------------ wait_until_*

\* wait_until_queued(number): returns at once when the block is queued.
WaitUntilQueuedCall(c, number) ==
    /\ pc[c] = "idle"
    /\ IF number < NextOf(queued_state)
       THEN Finish(c, RetWaited(number, 270))
       ELSE /\ pc' = [pc EXCEPT ![c] = "wq_wait"]
            /\ num' = [num EXCEPT ![c] = Some(number)]
            /\ ret' = [ret EXCEPT ![c] = NoRet]
            /\ blk' = blk
    /\ UNCHANGED <<inner, store, runner, handshake>>

WaitUntilQueuedResume(c) ==
    /\ pc[c] = "wq_wait"
    /\ num[c][1] < NextOf(queued_state)
    /\ Finish(c, RetWaited(num[c][1], 270))
    /\ UNCHANGED <<inner, store, runner, handshake>>

\* wait_until_persisted(number): returns at once when the block is persisted.
WaitUntilPersistedCall(c, number) ==
    /\ pc[c] = "idle"
    /\ IF number < NextOf(persisted_state)
       THEN Finish(c, RetWaited(number, 283))
       ELSE /\ pc' = [pc EXCEPT ![c] = "wp_wait"]
            /\ num' = [num EXCEPT ![c] = Some(number)]
            /\ ret' = [ret EXCEPT ![c] = NoRet]
            /\ blk' = blk
    /\ UNCHANGED <<inner, store, runner, handshake>>

WaitUntilPersistedResume(c) ==
    /\ pc[c] = "wp_wait"
    /\ num[c][1] < NextOf(persisted_state)
    /\ Finish(c, RetWaited(num[c][1], 283))
    /\ UNCHANGED <<inner, store, runner, handshake>>

\* The source line at which each suspended call observes cancellation.
CancelLine(p) ==
    CASE p = "q_wait" -> 225
      [] p = "b_read" -> 205
      [] p = "wq_wait" -> 269
      [] p = "wp_wait" -> 282

\* Cancel that reports the cancellation as an ordinary error.
Cancel_as_error(c) ==
    /\ pc[c] \in {"q_wait", "b_read", "wq_wait", "wp_wait"}
    /\ Finish(c, RetErr(CancelLine(pc[c])))
    /\ UNCHANGED <<inner, store, runner, handshake>>

\* The task's context is canceled while its call is suspended.
Cancel(c) ==
    /\ pc[c] \in {"q_wait", "b_read", "wq_wait", "wp_wait"}
    /\ Finish(c, RetCanceled(CancelLine(pc[c])))
    /\ UNCHANGED <<inner, store, runner, handshake>>

\* -------------------------------------------------------------- handshake

\* const TIMEOUT, in seconds.
TIMEOUT == 5
\* The latest time at which a handshake may start.
MaxDelay == 1
MaxTime == MaxDelay + TIMEOUT

\* Validator keys: of the outbound side, of the inbound side, of an outsider.
Keys == {"ka", "kb", "ke"}
HonestKeys == {"ka", "kb"}
GenesisHashes == {"G1", "G2"}
\* Ids of the streams of this session, and of an earlier session.
StreamIds == {"s1", "s2"}
PriorStreamIds == {"s0"}

\* noise stream id -> bytes
Encode(id) == <<"id", id>>
\* node::SessionId(stream.id().encode())
SessionIdOf(stream) == [bytes |-> Encode(stream)]

\* SecretKey::sign_msg: the signature binds the key and the message.
SignMsg(k, m) == [msg |-> m, key |-> k, sig |-> [signer |-> k, signed |-> m]]
\* A Signed value that claims key k without its secret key.
Forged(k, m) == [msg |-> m, key |-> k, sig |-> [signer |-> "nobody", signed |-> m]]
\* Signed::verify
VerifySig(s) == s.sig = [signer |-> s.key, signed |-> s.msg]

\* struct Handshake
Handshake(sid, g) == [session_id |-> sid, genesis |-> g]

\* ProtoFmt::build: the protobuf message of h, every field present.
Build(h) == [session_id |-> Some(h.session_id), genesis |-> Some(h.genesis)]
\* ProtoFmt::read: the Handshake of protobuf message r, or None (an error)
\* when a required field is missing.
Read(r) ==
    IF r.session_id = None \/ r.genesis = None
    THEN None
    ELSE Some(Handshake(r.session_id[1], r.genesis[1]))

\* frame::send_proto: the frame that carries h.
SendProto(h) == Build(h)
\* A frame that does not decode to a Handshake.
Malformed == [session_id |-> None, genesis |-> None]
\* frame::recv_proto: the decoded Handshake, if the frame holds one.
RecvProto(f) == Read(f)

\* Results of outbound and inbound.
HsNone == [kind |-> "none"]
HsOk == [kind |-> "Ok"]
HsOkKey(k) == [kind |-> "Ok", key |-> k]
HsErr(e) == [kind |-> e]
HsStream(l, c) == [kind |-> "Stream", line |-> l, cause |-> c]
HsErrors == {"GenesisMismatch", "SessionIdMismatch", "PeerMismatch", "Signature", "Stream"}

\* ctx.with_timeout(TIMEOUT) at time t: the deadline of the new context.
WithTimeout_never(t) == t + TIMEOUT + MaxTime

WithTimeout(t) == t + TIMEOUT

\* The peer dropped its end of the stream: it returned an error.
OutClosed == out_pc = "done" /\ out_ret.kind # "Ok"
InClosed == in_pc = "done" /\ in_ret.kind # "Ok"

\* OutboundCheck without the comparison with the expected peer key.
OutboundCheck_no_peer(args, h) ==
    IF h.genesis # args.genesis THEN HsErr("GenesisMismatch")
    ELSE IF h.session_id.msg # SessionIdOf(args.stream) THEN HsErr("SessionIdMismatch")
    ELSE IF ~VerifySig(h.session_id) THEN HsErr("Signature")
    ELSE HsOk

\* OutboundCheck that verifies the signature before it compares the key.
OutboundCheck_verify_first(args, h) ==
    IF h.genesis # args.genesis THEN HsErr("GenesisMismatch")
    ELSE IF h.session_id.msg # SessionIdOf(args.stream) THEN HsErr("SessionIdMismatch")
    ELSE IF ~VerifySig(h.session_id) THEN HsErr("Signature")
    ELSE IF h.session_id.key # args.peer THEN HsErr("PeerMismatch")
    ELSE HsOk

\* outbound, after recv_proto: the checks of the received handshake, in the
\* order of the source.
OutboundCheck(args, h) ==
    IF h.genesis # args.genesis THEN HsErr("GenesisMismatch")
    ELSE IF h.session_id.msg # SessionIdOf(args.stream) THEN HsErr("SessionIdMismatch")
    ELSE IF h.session_id.key # args.peer THEN HsErr("PeerMismatch")
    ELSE IF ~VerifySig(h.session_id) THEN HsErr("Signature")
    ELSE HsOk

\* InboundCheck without the comparison of genesis hashes.
InboundCheck_no_genesis(args, h) ==
    IF h.session_id.msg # SessionIdOf(args.stream) THEN HsErr("SessionIdMismatch")
    ELSE IF ~VerifySig(h.session_id) THEN HsErr("Signature")
    ELSE HsOk

\* InboundCheck without the comparison of session ids.
InboundCheck_no_session(args, h) ==
    IF h.genesis # args.genesis THEN HsErr("GenesisMismatch")
    ELSE IF ~VerifySig(h.session_id) THEN HsErr("Signature")
    ELSE HsOk

\* InboundCheck without the verification of the signature.
InboundCheck_no_verify(args, h) ==
    IF h.genesis # args.genesis THEN HsErr("GenesisMismatch")
    ELSE IF h.session_id.msg # SessionIdOf(args.stream) THEN HsErr("SessionIdMismatch")
    ELSE HsOk

\* inbound, after recv_proto: the checks of the received handshake.
InboundCheck(args, h) ==
    IF h.genesis # args.genesis THEN HsErr("GenesisMismatch")
    ELSE IF h.session_id.msg # SessionIdOf(args.stream) THEN HsErr("SessionIdMismatch")
    ELSE IF ~VerifySig(h.session_id) THEN HsErr("Signature")
    ELSE HsOk

\* The handshake each side sends: its signature of the session id of its own
\* stream, and its genesis hash.
OwnHandshake(args) ==
    Handshake(SignMsg(args.me, SessionIdOf(args.stream)), args.genesis)

\* outbound starts: the deadline is set, the session id computed.
OutboundStart ==
    /\ out_pc = "idle"
    /\ now <= MaxDelay
    /\ out_deadline' = WithTimeout(now)
    /\ out_pc' = "send"
    /\ UNCHANGED <<out_args, out_ret, in_args, in_pc, in_deadline, in_h, in_ret,
                   a2b, b2a, now>>
    /\ UNCHANGED <<inner, store, runner, tasks>>

\* send_proto of outbound completes.
OutboundSend ==
    /\ out_pc = "send"
    /\ a2b' = Append(a2b, SendProto(OwnHandshake(out_args)))
    /\ out_pc' = "recv"
    /\ UNCHANGED <<out_args, out_deadline, out_ret, in_args, in_pc, in_deadline,
                   in_h, in_ret, b2a, now>>
    /\ UNCHANGED <<inner, store, runner, tasks>>

\* outbound ends with result r.
OutboundReturn(r) ==
    /\ out_ret' = r
    /\ out_pc' = "done"
    /\ UNCHANGED <<out_args, out_deadline, in_args, in_pc, in_deadline, in_h,
                   in_ret, a2b, now>>
    /\ UNCHANGED <<inner, store, runner, tasks>>

\* recv_proto of outbound yields frame f; the checks follow without
\* suspension.
OutboundRecv(f) ==
    /\ out_pc = "recv"
    /\ IF RecvProto(f) = None
       THEN OutboundReturn(HsStream(79, "decode"))
       ELSE OutboundReturn(OutboundCheck(out_args, RecvProto(f)[1]))

\* The context of outbound expires while it sends or receives.
OutboundTimeout ==
    /\ out_pc \in {"send", "recv"}
    /\ now >= out_deadline
    /\ OutboundReturn(HsStream(IF out_pc = "send" THEN 76 ELSE 79, "timeout"))
    /\ b2a' = b2a

\* The stream of outbound fails: the peer has dropped its end and nothing is
\* left to read.
OutboundStreamClosed ==
    /\ out_pc \in {"send", "recv"}
    /\ InClosed
    /\ b2a = <<>>
    /\ OutboundReturn(HsStream(IF out_pc = "send" THEN 76 ELSE 79, "closed"))
    /\ b2a' = b2a

\* inbound starts: the deadline is set, the session id computed.
InboundStart ==
    /\ in_pc = "idle"
    /\ now <= MaxDelay
    /\ in_deadline' = WithTimeout(now)
    /\ in_pc' = "recv"
    /\ UNCHANGED <<out_args, out_pc, out_deadline, out_ret, in_args, in_h, in_ret,
                   a2b, b2a, now>>
    /\ UNCHANGED <<inner, store, runner, tasks>>

\* inbound ends with result r.
InboundReturn(r) ==
    /\ in_ret' = r
    /\ in_pc' = "done"
    /\ UNCHANGED <<out_args, out_pc, out_deadline, out_ret, in_args, in_deadline,
                   now>>
    /\ UNCHANGED <<inner, store, runner, tasks>>

\* InboundRecv that sends inbound's handshake as soon as a handshake is
\* received, before checking it.
InboundRecv_send_first(f) ==
    /\ in_pc = "recv"
    /\ IF RecvProto(f) = None
       THEN InboundReturn(HsStream(103, "decode")) /\ UNCHANGED <<in_h, b2a>>
       ELSE LET h == RecvProto(f)[1]
            IN /\ b2a' = Append(b2a, SendProto(OwnHandshake(in_args)))
               /\ IF InboundCheck(in_args, h) # HsOk
                  THEN InboundReturn(InboundCheck(in_args, h)) /\ UNCHANGED in_h
                  ELSE /\ in_h' = Some(h)
                       /\ InboundReturn(HsOkKey(h.session_id.key))

\* recv_proto of inbound yields frame f; the checks follow without suspension
\* and lead to an error or to send_proto.
InboundRecv(f) ==
    /\ in_pc = "recv"
    /\ IF RecvProto(f) = None
       THEN InboundReturn(HsStream(103, "decode")) /\ UNCHANGED <<in_h, b2a>>
       ELSE LET h == RecvProto(f)[1]
            IN IF InboundCheck(in_args, h) # HsOk
               THEN InboundReturn(InboundCheck(in_args, h)) /\ UNCHANGED <<in_h, b2a>>
               ELSE /\ in_h' = Some(h)
                    /\ in_pc' = "send"
                    /\ UNCHANGED <<out_args, out_pc, out_deadline, out_ret, in_args,
                                   in_deadline, in_ret, b2a, now>>
                    /\ UNCHANGED <<inner, store, runner, tasks>>

\* send_proto of inbound completes; inbound returns the key of the received
\* handshake.
InboundSend ==
    /\ in_pc = "send"
    /\ b2a' = Append(b2a, SendProto(OwnHandshake(in_args)))
    /\ InboundReturn(HsOkKey(in_h[1].session_id.key))
    /\ UNCHANGED <<in_h, a2b>>

\* The context of inbound expires while it receives or sends.
InboundTimeout ==
    /\ in_pc \in {"recv", "send"}
    /\ now >= in_deadline
    /\ InboundReturn(HsStream(IF in_pc = "recv" THEN 103 ELSE 120, "timeout"))
    /\ UNCHANGED <<in_h, a2b, b2a>>

\* The stream of inbound fails: the peer has dropped its end and nothing is
\* left to read.
InboundStreamClosed ==
    /\ in_pc \in {"recv", "send"}
    /\ OutClosed
    /\ a2b = <<>>
    /\ InboundReturn(HsStream(IF in_pc = "recv" THEN 103 ELSE 120, "closed"))
    /\ UNCHANGED <<in_h, a2b, b2a>>

\* A second passes.
Tick ==
    /\ now < MaxTime
    /\ now' = now + 1
    /\ UNCHANGED <<out_args, out_pc, out_deadline, out_ret, in_args, in_pc,
                   in_deadline, in_h, in_ret, a2b, b2a>>
    /\ UNCHANGED <<inner, store, runner, tasks>>

\* The stream delivers to outbound the oldest frame that inbound sent.
OutboundDeliver ==
    /\ b2a # <<>>
    /\ OutboundRecv(Head(b2a))
    /\ b2a' = Tail(b2a)

\* The stream delivers to inbound the oldest frame that outbound sent.
InboundDeliver ==
    /\ a2b # <<>>
    /\ InboundRecv(Head(a2b))
    /\ a2b' = Tail(a2b)

\* ---------------------------------------------------------- specification

RunnerNext ==
    \/ RunnerTake
    \/ StoreOk
    \/ StoreFail
    \/ RunnerCancel
    \/ RunnerCommit

\* Concurrent queue_block callers and the runner.
Next ==
    \/ \E c \in Queuers, b \in AllBlocks : QueueBlockCall(c, b)
    \/ \E c \in Queuers : QueueBlockResume(c)
    \/ \E c \in Queuers : QueueBlockCommit(c)
    \/ \E c \in Queuers : Cancel(c)
    \/ RunnerNext

Spec == Init /\ [][Next]_vars

\* One queue_block caller, the runner, and an observer of the store. The
\* single caller submits blocks in order: with nobody else to queue the
\* predecessors, a call for a later number would wait forever.
NextObs ==
    \/ \E b \in AllBlocks :
          WaitPassed(queued_state, b.header.number) /\ QueueBlockCall(1, b)
    \/ QueueBlockCommit(1)
    \/ \E n \in Requested : BlockCall(Observer, n)
    \/ BlockRead(Observer)
    \/ \E n \in Requested : WaitUntilQueuedCall(Observer, n)
    \/ WaitUntilQueuedResume(Observer)
    \/ \E n \in Requested : WaitUntilPersistedCall(Observer, n)
    \/ WaitUntilPersistedResume(Observer)
    \/ Cancel(Observer)
    \/ RunnerNext

SpecObs == Init /\ [][NextObs]_vars

\* The executor polls a queue_block task that a change of queued_state has
\* woken, and a task that is ready to enter its critical section.
QueuersFair ==
    \A c \in Queuers :
        WF_vars(QueueBlockResume(c)) /\ WF_vars(QueueBlockCommit(c))

SpecLive == Init /\ [][Next]_vars /\ QueuersFair

\* The queue_block callers, the runner, and a task that waits for blocks to
\* be queued and persisted; any suspended call may be canceled.
NextWait ==
    \/ Next
    \/ \E n \in Requested : WaitUntilQueuedCall(Observer, n)
    \/ WaitUntilQueuedResume(Observer)
    \/ \E n \in Requested : WaitUntilPersistedCall(Observer, n)
    \/ WaitUntilPersistedResume(Observer)
    \/ Cancel(Observer)

SpecWait == Init /\ [][NextWait]_vars

\* The queue_block callers, the runner, and a task that reads blocks.
NextRace ==
    \/ Next
    \/ \E n \in Requested : BlockCall(Observer, n)
    \/ BlockRead(Observer)

SpecRace == Init /\ [][NextRace]_vars

\* A run in which the runner's context is never canceled and every
\* store_next_block succeeds: one in-order queue_block caller, the runner,
\* and a task that calls wait_until_persisted.
NextRun ==
    \/ \E b \in AllBlocks :
          WaitPassed(queued_state, b.header.number) /\ QueueBlockCall(1, b)
    \/ QueueBlockCommit(1)
    \/ \E n \in Numbers : WaitUntilPersistedCall(Observer, n)
    \/ WaitUntilPersistedResume(Observer)
    \/ RunnerTake
    \/ StoreOk
    \/ RunnerCommit

\* The executor drives the runner: it is polled when the queue is non-empty,
\* the persistent store answers, and the critical section is entered.
RunnerFair ==
    /\ WF_vars(RunnerTake)
    /\ WF_vars(StoreOk)
    /\ WF_vars(RunnerCommit)

\* A task suspended in wait_until_persisted is polled once persisted_state
\* has changed.
WaiterFair == WF_vars(WaitUntilPersistedResume(Observer))

SpecRun == Init /\ [][NextRun]_vars /\ RunnerFair /\ WaiterFair


\* The handshake before it starts; the two sides hold a1 and a2.
HandshakeInit(a1, a2) ==
    /\ StoreIdle
    /\ out_args = a1
    /\ in_args = a2
    /\ out_pc = "idle"
    /\ in_pc = "idle"
    /\ out_deadline = 0
    /\ in_deadline = 0
    /\ out_ret = HsNone
    /\ in_ret = HsNone
    /\ in_h = None
    /\ a2b = <<>>
    /\ b2a = <<>>
    /\ now = 0

\* outbound of validator ka and inbound of validator kb on the two ends of
\* one stream: each with a genesis hash of its own, ka expecting any peer.
InitHs ==
    \E g1 \in GenesisHashes, g2 \in GenesisHashes, s \in StreamIds, p \in Keys :
        HandshakeInit([me |-> "ka", genesis |-> g1, stream |-> s, peer |-> p],
                      [me |-> "kb", genesis |-> g2, stream |-> s])

\* The two sides over a stream that delivers in order, with the clock.
NextHs ==
    \/ OutboundStart
    \/ OutboundSend
    \/ OutboundDeliver
    \/ OutboundTimeout
    \/ OutboundStreamClosed
    \/ InboundStart
    \/ InboundDeliver
    \/ InboundSend
    \/ InboundTimeout
    \/ InboundStreamClosed
    \/ Tick

SpecHs == InitHs /\ [][NextHs]_vars

\* Time passes, and a context whose deadline has passed ends the send or
\* receive that waits on it. Nothing is assumed of the peer or the stream.
TimeFair ==
    /\ WF_vars(Tick)
    /\ WF_vars(OutboundTimeout)
    /\ WF_vars(InboundTimeout)

SpecHsFair == InitHs /\ [][NextHs]_vars /\ TimeFair

\* outbound and inbound each on a stream of its own, with an adversary
\* between them.
InitAdv ==
    \E g1 \in GenesisHashes, g2 \in GenesisHashes,
       s1 \in StreamIds, s2 \in StreamIds, p \in Keys :
        HandshakeInit([me |-> "ka", genesis |-> g1, stream |-> s1, peer |-> p],
                      [me |-> "kb", genesis |-> g2, stream |-> s2])

\* Frames of this session that the adversary has seen on either stream.
Wire == {a2b[i] : i \in 1..Len(a2b)} \cup {b2a[i] : i \in 1..Len(b2a)}

\* Frames the adversary recorded in an earlier session of the honest
\* validators.
Recorded ==
    {SendProto(Handshake(SignMsg(k, SessionIdOf(s)), g)) :
        k \in HonestKeys, s \in PriorStreamIds, g \in GenesisHashes}

\* Frames the adversary makes: signed with its own key, carrying a signature
\* it cannot produce, or not a handshake at all.
Made ==
    {SendProto(Handshake(SignMsg("ke", SessionIdOf(s)), g)) :
        s \in StreamIds, g \in GenesisHashes}
    \cup {SendProto(Handshake(Forged(k, SessionIdOf(s)), g)) :
        k \in Keys, s \in StreamIds, g \in GenesisHashes}
    \cup {Malformed}

Deliverable == Wire \cup Recorded \cup Made

\* The adversary decides what each side receives.
NextAdv ==
    \/ OutboundStart
    \/ OutboundSend
    \/ \E f \in Deliverable : OutboundRecv(f) /\ b2a' = b2a
    \/ InboundStart
    \/ \E f \in Deliverable : InboundRecv(f) /\ a2b' = a2b
    \/ InboundSend

SpecAdv == InitAdv /\ [][NextAdv]_vars


\* ----------------------------------------------------------------- claims

\* The persisted blocks (as persisted_state counts them) followed by the queue.
PersistedBlocks == SubSeq(persistent, 1, NextOf(persisted_state) - First)
StoredChain == PersistedBlocks \o queue

\* C1: in every reachable state persisted_state.next() + queue.len() equals
\* queued_state.next(), and the i-th block of the queue (counting from 0) has
\* number persisted_state.next() + i.
C1_Contiguity ==
    /\ NextOf(persisted_state) + Len(queue) = NextOf(queued_state)
    /\ \A i \in 1..Len(queue) :
          queue[i].header.number = NextOf(persisted_state) + (i - 1)

\* A block waits in the queue behind one that the runner has already persisted.
C1_Witness ==
    /\ Len(queue) >= 1
    /\ Len(store_calls) >= 1
    /\ NextOf(persisted_state) = store_calls[1].header.number + 1

\* C2: in every reachable state the persisted blocks followed by the queued
\* blocks form a parent-hash chain that starts at block First: each block's
\* parent is the hash of the header of the block before it, the pair (last
\* block known at startup, first queued block) included.
C2_ParentChain ==
    /\ StoredChain # <<>> => StoredChain[1].header.number = First
    /\ \A i \in 2..Len(StoredChain) :
          StoredChain[i].header.parent = Some(Hash(StoredChain[i - 1].header))

\* The first queued block sits behind the block the store held at startup.
C2_Witness ==
    /\ store_calls = <<>>
    /\ Len(persistent) = 1
    /\ Len(queue) = 1

\* C3: across every step queued_state.next() and persisted_state.next() never
\* decrease, and in every state persisted_state.next() <= queued_state.next().
C3_Monotone ==
    /\ [](NextOf(persisted_state) <= NextOf(queued_state))
    /\ [][/\ NextOf(queued_state') >= NextOf(queued_state)
          /\ NextOf(persisted_state') >= NextOf(persisted_state)]_vars

\* Both frontiers have advanced, the persisted one behind the queued one.
C3_Witness ==
    /\ Len(store_calls) >= 1
    /\ NextOf(persisted_state) > store_calls[1].header.number
    /\ NextOf(queued_state) > NextOf(persisted_state)


\* The result is Some(b) with b.header.number = n.
IsBlockNumbered(r, n) ==
    /\ r.kind = "Block"
    /\ IsSome(r.block)
    /\ r.block[1].header.number = n

\* The persistent store holds block n.
Durable(n) ==
    /\ n - First + 1 \in 1..Len(persistent)
    /\ PersistentBlock(persistent, n).header.number = n

\* C4: block(n) called while queued_state.contains(n) returns Some(b) with
\* b.header.number = n: either at once from the queue, or from the persistent
\* store after a suspension during which the runner may persist further
\* blocks (the call is not canceled and the persistent store returns what it
\* stored).
C4_Readback ==
    [][/\ \A n \in Numbers :
             (BlockCall(Observer, n) /\ Contains(queued_state, n))
                => \/ IsBlockNumbered(ret'[Observer], n)
                   \/ pc'[Observer] = "b_read" /\ Durable(n)
       /\ (BlockRead(Observer) /\ pc[Observer] = "b_read")
             => IsBlockNumbered(ret'[Observer], num[Observer][1])]_vars

\* block(n) has answered from the queue while the runner is persisting that
\* very block.
C4_Witness ==
    /\ ret[Observer].kind = "Block"
    /\ ret[Observer].line = 197
    /\ IsSome(ret[Observer].block)
    /\ runner_pc \in {"storing", "stored"}
    /\ runner_block = ret[Observer].block
    /\ Len(queue) = 2


\* The step in which queue_block(b) of task c gets past its wait: at the call,
\* or when a suspended call is resumed.
QueueBlockStep(c, b) ==
    \/ pc[c] = "idle" /\ WaitPassed(queued_state, b.header.number) /\ QueueBlockCall(c, b)
    \/ pc[c] = "q_wait" /\ blk[c] = Some(b) /\ QueueBlockResume(c)

\* C5: queue_block(b) with b.number < queued_state.next() returns success and
\* changes nothing (queued_state, its watch version, persisted_state, the
\* queue and the persistent store stay as they are), for any such b, also one
\* that would fail verification or the parent check.
C5_StaleNoop ==
    [][\A c \in Queuers, b \in AllBlocks :
          (b.header.number < NextOf(queued_state) /\ QueueBlockStep(c, b))
             => /\ pc'[c] = "idle"
                /\ ret'[c].kind = "Ok"
                /\ UNCHANGED <<inner, store>>]_vars

\* A call has returned from the stale check.
C5_Witness == \E c \in Queuers : pc[c] = "idle" /\ ret[c] = RetOk(227)

\* How many blocks of the store (persisted or queued) have number n.
Numbered(n) ==
    Cardinality({i \in 1..Len(StoredChain) : StoredChain[i].header.number = n})

\* C6: when queue_block calls race to their critical section with a block of
\* the same number, every one of them returns Ok, the store holds exactly one
\* block of that number afterwards (the caller's own block when the number
\* was still the next one), and the queued_state watch notifies once per
\* appended block and only then.
C6_CommitOnce ==
    [][\A c \in Queuers :
          (pc[c] = "q_commit" /\ QueueBlockCommit(c))
             => /\ ret'[c].kind = "Ok"
                /\ \A n \in Numbers : n = blk[c][1].header.number => Numbered(n)' = 1
                /\ NextOf(queued_state) = blk[c][1].header.number
                      => queue' = Append(queue, blk[c][1])
                /\ queued_version' - queued_version = Len(queue') - Len(queue)
                /\ (queued_state' # queued_state) <=> (queued_version' # queued_version)]_vars

\* Two calls have both left the critical section with Ok, one having appended
\* its block and the other having found the number taken, and one block in
\* all has been accepted: the two raced for the same number.
C6_Witness ==
    \E c, d \in Queuers :
        /\ ret[c] = RetQueued(TRUE)
        /\ ret[d] = RetQueued(FALSE)
        /\ queued_version = 1
        /\ Len(StoredChain) = Len(PersistedBlocks) + 1

\* C7: queue_block(b) with b.number = queued_state.next() returns an error and
\* leaves queued_state, persisted_state, the queue and the persistent store
\* unchanged when b fails verification, or when queued_state.last is present
\* and b's parent is not the hash of its header.
C7_RejectUnchanged ==
    [][\A c \in Queuers, b \in AllBlocks :
          (/\ b.header.number = NextOf(queued_state)
           /\ \/ ~Verify(b)
              \/ /\ IsSome(queued_state.last)
                 /\ b.header.parent # Some(Hash(queued_state.last[1].header))
           /\ QueueBlockStep(c, b))
             => /\ pc'[c] = "idle"
                /\ ret'[c].kind = "Err"
                /\ UNCHANGED <<inner, store>>]_vars

\* One call was refused for its parent hash and a block was accepted all the
\* same.
C7_Witness ==
    \E c, d \in Queuers :
        /\ ret[c] = RetErr(233)
        /\ ret[d] = RetQueued(TRUE)
        /\ queued_version = 1


\* C8: store_next_block is called only by a runner that has no call in
\* flight, with the oldest block of the queue, whose number is
\* persisted_state.next() at that time; so the blocks passed to it have
\* consecutive increasing numbers starting at the persisted_state.next() the
\* store started with, each block being passed at most once.
C8_StoreCallsInOrder ==
    /\ [](/\ store_calls = <<>> => NextOf(persisted_state) = First + Len(persistent)
          /\ \A i \in 1..Len(store_calls) :
                store_calls[i].header.number = store_calls[1].header.number + (i - 1))
    /\ [][store_calls' # store_calls
            => /\ runner_pc = "wait"
               /\ queue # <<>>
               /\ store_calls' = Append(store_calls, queue[1])
               /\ queue[1].header.number = NextOf(persisted_state)]_vars

\* The runner has passed two blocks to the persistent store.
C8_Witness == Len(store_calls) = 2

\* wait_until_persisted(n) of the observer returns Ok in this step.
WaitUntilPersistedReturns(n) ==
    /\ \/ WaitUntilPersistedCall(Observer, n)
       \/ num[Observer] = Some(n) /\ WaitUntilPersistedResume(Observer)
    /\ ret'[Observer].kind = "Ok"

\* C9: every block number below persisted_state.next() is held by the
\* persistent store, which takes a block only when store_next_block returns
\* Ok for it; so wait_until_persisted(n) returns only for a block that is
\* durable, never for one that is only queued or whose store call is still in
\* progress.
C9_PersistedIsDurable ==
    /\ [](\A n \in Numbers : n < NextOf(persisted_state) => Durable(n))
    /\ [][\A n \in Numbers :
             WaitUntilPersistedReturns(n)
                => /\ Durable(n)
                   /\ ~(runner_pc = "storing" /\ runner_block[1].header.number = n)]_vars

\* wait_until_persisted has returned for a block that the runner persisted.
C9_Witness ==
    /\ ret[Observer].kind = "Ok"
    /\ ret[Observer].line = 283
    /\ Len(store_calls) >= 1
    /\ ret[Observer].number >= store_calls[1].header.number

\* b passes verification and links to the last block of queued_state.
Acceptable(b) ==
    /\ Verify(b)
    /\ IsSome(queued_state.last) => b.header.parent = Some(Hash(queued_state.last[1].header))

C11_EventuallyPersisted ==
    \A n \in Numbers :
        /\ (n < NextOf(queued_state)) ~> (n < NextOf(persisted_state))
        /\ (pc[Observer] = "wp_wait" /\ num[Observer] = Some(n)
               /\ n < NextOf(queued_state))
             ~> (ret[Observer] = RetWaited(n, 283))

\* wait_until_persisted has returned for a block that went through the queue
\* and the runner.
C11_Witness ==
    /\ store_calls # <<>>
    /\ ret[Observer] = RetWaited(store_calls[1].header.number, 283)
    /\ store_calls[1].header.number < NextOf(persisted_state)

\* C12: run() returns Ok when its context is canceled while it waits for a
\* non-empty queue or for store_next_block, returns an error when
\* store_next_block fails, and returns in no other case (in particular the
\* debug assertion of its critical section never fails); once it has
\* returned, the runner does nothing more.
C12_RunnerTermination ==
    /\ [](runner_pc = "stored" =>
            runner_block[1].header.number = NextOf(persisted_state))
    /\ [][/\ RunnerCancel => runner_ret' = "Ok"
          /\ StoreFail => runner_ret' = "Err"
          /\ runner_ret' # runner_ret =>
                runner_ret = "none" /\ (RunnerCancel \/ StoreFail)
          /\ runner_ret # "none" =>
                UNCHANGED <<persisted_state, store, runner>>]_vars

\* run() has returned Ok after a cancellation inside store_next_block, the
\* block still in the queue.
C12_Witness ==
    /\ runner_ret = "Ok"
    /\ runner_block # None
    /\ queue # <<>>
    /\ runner_block[1] = queue[1]
    /\ NextOf(persisted_state) = runner_block[1].header.number

\* A subscriber that borrows queued_state now sees next() > n.
Observed(n) == n < NextOf(queued_state)

\* For the numbers of S: what a subscriber has observed stays observable,
\* wait_until_queued(n) returns only when it is, and a block(n) called after
\* the observation returns Some(b) with b numbered n, at once or after its
\* read of the persistent store.
ObservedReadback(S) ==
    \A n \in S :
        /\ Observed(n) => Observed(n)'
        /\ ret'[Observer] = RetWaited(n, 270) => Observed(n)'
        /\ (BlockCall(Observer, n) /\ Observed(n))
              => \/ IsBlockNumbered(ret'[Observer], n)
                 \/ pc'[Observer] = "b_read" /\ Durable(n)
        /\ (BlockRead(Observer) /\ num[Observer] = Some(n))
              => IsBlockNumbered(ret'[Observer], n)

\* C13 as stated: for every block number n, once a subscriber has observed
\* queued_state.next() > n, block(n) returns Some.
C13_AnyNumber == [][ObservedReadback(Requested)]_vars

\* C13, amended: for every block number n >= queued_state.first, once a
\* subscriber has observed queued_state.next() > n, block(n) returns Some
\* (the persistent store returns every block it acknowledged).
C13_FromFirst ==
    [][ObservedReadback({n \in Requested : queued_state.first <= n})]_vars

\* block(n) has answered Some from the persistent store for a block that was
\* queued, observed, and persisted since.
C13_Witness ==
    /\ ret[Observer].kind = "Block"
    /\ ret[Observer].line = 207
    /\ IsSome(ret[Observer].block)
    /\ store_calls # <<>>
    /\ ret[Observer].block[1] = store_calls[1]
    /\ Observed(ret[Observer].number)

\* Where queue_block, wait_until_queued and wait_until_persisted suspend.
Suspended == {"q_wait", "wq_wait", "wp_wait"}

\* C14: a queue_block, wait_until_queued or wait_until_persisted canceled
\* while suspended returns Canceled, and the call has changed nothing: not
\* when it suspended, not while it waited, not when it was canceled
\* (queued_state, its watch version, persisted_state, the queue and the
\* persistent store are those the other tasks made).
C14_CancelNoEffect ==
    [][\A c \in Tasks :
          /\ (pc[c] \in Suspended /\ Cancel(c))
                => /\ ret'[c] = RetCanceled(CancelLine(pc[c]))
                   /\ ret'[c].kind \notin {"Ok", "Err"}
                   /\ UNCHANGED <<inner, store, runner>>
          /\ (pc[c] = "idle" /\ pc'[c] \in Suspended)
                => UNCHANGED <<inner, store, runner>>]_vars

\* A queue_block waiting for its predecessor and a wait_until_persisted have
\* both been canceled, with a block in the queue.
C14_Witness ==
    /\ \E c \in Queuers : ret[c] = RetCanceled(225)
    /\ ret[Observer] = RetCanceled(282)
    /\ queue # <<>>

\* The run ended because its deadline expired.
TimedOut(r) == r.kind = "Stream" /\ r.cause = "timeout"

\* Same genesis hash, both signatures verify, and the key the inbound side
\* signs with is the peer key the outbound side expects.
HandshakeAgrees ==
    /\ out_args.genesis = in_args.genesis
    /\ VerifySig(OwnHandshake(out_args).session_id)
    /\ VerifySig(OwnHandshake(in_args).session_id)
    /\ OwnHandshake(in_args).session_id.key = out_args.peer

\* C15: outbound and inbound on the two ends of one stream that delivers
\* reliably, neither deadline expiring: when both have returned, both have
\* returned success if and only if they use the same genesis hash, both
\* signatures verify and the inbound side signs with the key the outbound
\* side expects.
C15_SuccessIff ==
    /\ out_args.stream = in_args.stream
    /\ (out_pc = "done" /\ in_pc = "done" /\ ~TimedOut(out_ret) /\ ~TimedOut(in_ret))
          => ((out_ret.kind = "Ok" /\ in_ret.kind = "Ok") <=> HandshakeAgrees)

\* Both sides have returned success, inbound with the key of the outbound
\* side.
C15_Witness ==
    /\ out_ret = HsOk
    /\ in_ret = HsOkKey(out_args.me)
    /\ HandshakeAgrees

\* C16 as stated: when the two sides hold different genesis hashes and both
\* have returned, neither has returned success and at least one has returned
\* GenesisMismatch, the other GenesisMismatch or a Stream error.
C16_SomeGenesisMismatch ==
    (out_args.genesis # in_args.genesis /\ out_pc = "done" /\ in_pc = "done")
        => /\ out_ret.kind \in {"GenesisMismatch", "Stream"}
           /\ in_ret.kind \in {"GenesisMismatch", "Stream"}
           /\ "GenesisMismatch" \in {out_ret.kind, in_ret.kind}

\* C16, amended: when the two sides hold different genesis hashes, neither
\* returns success; the inbound side returns GenesisMismatch when it receives
\* the handshake of the outbound side, and a Stream error when its deadline
\* expires or the stream fails before that; the outbound side, to which the
\* inbound side then sends nothing, returns a Stream error.
C16_GenesisMismatch ==
    /\ [](out_args.genesis # in_args.genesis
            => /\ out_ret.kind \in {"none", "Stream"}
               /\ in_ret.kind \in {"none", "GenesisMismatch", "Stream"}
               /\ b2a = <<>>)
    /\ [][(out_args.genesis # in_args.genesis /\ InboundDeliver)
             => in_ret' = HsErr("GenesisMismatch")]_vars

\* The inbound side has returned GenesisMismatch, and the outbound side a
\* Stream error because the stream was dropped.
C16_Witness ==
    /\ out_args.genesis # in_args.genesis
    /\ in_ret = HsErr("GenesisMismatch")
    /\ out_ret = HsStream(79, "closed")

\* The handshakes that a frame of S decodes to.
HandshakesOf(S) == {RecvProto(f)[1] : f \in {g \in S : RecvProto(g) # None}}

\* outbound receives handshake h in this step.
OutboundReceives(h) == OutboundRecv(SendProto(h))

\* inbound receives handshake h in this step.
InboundReceives(h) == InboundRecv(SendProto(h))

\* C17: when outbound receives a handshake with its own genesis hash and the
\* session id of its stream whose key is not the expected peer key, it
\* returns PeerMismatch, whether the signature of the handshake is valid or
\* not.
C17_PeerMismatch ==
    [][\A h \in HandshakesOf(Deliverable) :
          (/\ OutboundReceives(h)
           /\ h.genesis = out_args.genesis
           /\ h.session_id.msg = SessionIdOf(out_args.stream)
           /\ h.session_id.key # out_args.peer)
             => out_ret' = HsErr("PeerMismatch")]_vars

\* outbound has returned PeerMismatch although the inbound side accepted its
\* handshake and returned its key.
C17_Witness ==
    /\ out_ret = HsErr("PeerMismatch")
    /\ in_ret = HsOkKey(out_args.me)

\* The frames an adversary can replay from an earlier session or relay from
\* the other stream: to outbound those inbound sent, to inbound those
\* outbound sent.
ReplayableToOutbound == Recorded \cup {b2a[i] : i \in 1..Len(b2a)}
ReplayableToInbound == Recorded \cup {a2b[i] : i \in 1..Len(a2b)}

\* C18: a handshake whose session id is not the one of the local stream is
\* never accepted. outbound and inbound answer it with SessionIdMismatch when
\* its genesis hash matches (and with GenesisMismatch otherwise); the session
\* ids of different streams differ; so no frame that an adversary replays
\* from an earlier session or relays from a stream with another id makes an
\* honest side return success.
C18_SessionBinding ==
    /\ [](\A s1 \in StreamIds \cup PriorStreamIds, s2 \in StreamIds :
             s1 # s2 => SessionIdOf(s1) # SessionIdOf(s2))
    /\ [][\A h \in HandshakesOf(Deliverable) :
             /\ (OutboundReceives(h) /\ h.session_id.msg # SessionIdOf(out_args.stream))
                   => out_ret' = IF h.genesis = out_args.genesis
                                 THEN HsErr("SessionIdMismatch")
                                 ELSE HsErr("GenesisMismatch")
             /\ (InboundReceives(h) /\ h.session_id.msg # SessionIdOf(in_args.stream))
                   => in_ret' = IF h.genesis = in_args.genesis
                                THEN HsErr("SessionIdMismatch")
                                ELSE HsErr("GenesisMismatch")]_vars
    /\ [][out_args.stream # in_args.stream
             => /\ \A h \in HandshakesOf(ReplayableToOutbound) :
                      OutboundReceives(h) => out_ret'.kind \in HsErrors
                /\ \A h \in HandshakesOf(ReplayableToInbound) :
                      InboundReceives(h) => in_ret'.kind \in HsErrors]_vars

\* On streams with different ids, inbound has rejected the handshake that
\* outbound sent, and outbound one recorded in an earlier session, both with
\* SessionIdMismatch.
C18_Witness ==
    /\ out_args.stream # in_args.stream
    /\ a2b # <<>>
    /\ in_ret = HsErr("SessionIdMismatch")
    /\ out_ret = HsErr("SessionIdMismatch")

\* C19: inbound returns key K only after it received a handshake with its
\* own genesis hash, the session id of its own stream and a signature that
\* verifies under K, and K is the key that handshake carries: the key of the
\* outbound side when the handshake is the one outbound sent.
C19_InboundKey ==
    in_ret.kind = "Ok"
        => /\ in_h # None
           /\ in_h[1].genesis = in_args.genesis
           /\ in_h[1].session_id.msg = SessionIdOf(in_args.stream)
           /\ VerifySig(in_h[1].session_id)
           /\ in_h[1].session_id.sig.signer = in_ret.key
           /\ in_ret.key = in_h[1].session_id.key
           /\ in_h[1] \in HandshakesOf(Deliverable)
           /\ in_h[1] = OwnHandshake(out_args) => in_ret.key = out_args.me

\* inbound has returned the key of the adversary, whose handshake it
\* received.
C19_Witness ==
    /\ in_ret = HsOkKey("ke")
    /\ in_h # None
    /\ in_h[1].session_id = SignMsg("ke", SessionIdOf(in_args.stream))

\* What outbound and inbound can return.
HsResults == {"Ok"} \cup HsErrors

\* C20: every run of outbound and of inbound ends, with success or one of
\* the handshake errors, also when the peer never sends or the stream fails:
\* the deadline, set TIMEOUT after the start, then expires and the run
\* returns a Stream error; a run returns that error only once its deadline
\* has passed.
C20_Terminates ==
    /\ (out_pc \in {"send", "recv"}) ~> (out_pc = "done" /\ out_ret.kind \in HsResults)
    /\ (in_pc \in {"recv", "send"}) ~> (in_pc = "done" /\ in_ret.kind \in HsResults)
    /\ [](out_pc # "idle" => out_deadline <= MaxDelay + TIMEOUT)
    /\ [](in_pc # "idle" => in_deadline <= MaxDelay + TIMEOUT)
    /\ [](TimedOut(out_ret) => now >= out_deadline)
    /\ [](TimedOut(in_ret) => now >= in_deadline)

\* outbound has sent its handshake and returned a Stream error at its
\* deadline, the inbound side never having started.
C20_Witness ==
    /\ out_ret = HsStream(79, "timeout")
    /\ a2b # <<>>
    /\ in_pc = "idle"
    /\ now = out_deadline

\* Tasks c and d are both about to enter the critical section of queue_block
\* with two distinct blocks of the number that is next.
Racing(c, d) ==
    /\ c # d
    /\ pc[c] = "q_commit"
    /\ pc[d] = "q_commit"
    /\ blk[c] # blk[d]
    /\ blk[c][1].header.number = NextOf(queued_state)
    /\ blk[d][1].header.number = NextOf(queued_state)

\* Task d is about to enter the critical section with a block whose number
\* another call has taken.
Lost(d) ==
    /\ pc[d] = "q_commit"
    /\ blk[d][1].header.number < NextOf(queued_state)

\* The block of number n that the store holds.
StoredBlock(n) == StoredChain[n - queued_state.first + 1]

\* C21: two queue_block calls racing with distinct blocks of the number that
\* is next both hold a block that passed verification and links to the
\* current last block; the first to enter the critical section appends its
\* block, which becomes queued_state.last, and returns Ok; the other then
\* returns Ok too and changes nothing, its block is dropped; the block the
\* store holds for a number never changes, and block(n) returns that block.
C21_OneWinner ==
    [][/\ \A c \in Queuers, d \in Queuers :
             (Racing(c, d) /\ QueueBlockCommit(c))
                => /\ Acceptable(blk[c][1])
                   /\ Acceptable(blk[d][1])
                   /\ ret'[c] = RetQueued(TRUE)
                   /\ queue' = Append(queue, blk[c][1])
                   /\ queued_state'.last = Some(blk[c][1].justification)
                   /\ Lost(d)'
       /\ \A d \in Queuers :
             (Lost(d) /\ QueueBlockCommit(d))
                => /\ ret'[d] = RetQueued(FALSE)
                   /\ UNCHANGED <<inner, store>>
       /\ \A n \in Numbers :
             Contains(queued_state, n)
                => /\ Numbered(n) = 1
                   /\ StoredBlock(n).header.number = n
                   /\ StoredBlock(n)' = StoredBlock(n)
                   /\ ((BlockCall(Observer, n) \/ (num[Observer] = Some(n) /\ BlockRead(Observer)))
                         /\ ret'[Observer].kind = "Block")
                        => ret'[Observer].block = Some(StoredBlock(n))]_vars

\* One call has won the race and returned, the other still holds its own,
\* different block of the same number, and block(n) has returned the
\* winner's block.
C21_Witness ==
    \E c \in Queuers, d \in Queuers :
        /\ ret[c] = RetQueued(TRUE)
        /\ Lost(d)
        /\ Verify(blk[d][1])
        /\ Contains(queued_state, blk[d][1].header.number)
        /\ StoredBlock(blk[d][1].header.number) # blk[d][1]
        /\ blk[d][1].header.parent = StoredBlock(blk[d][1].header.number).header.parent
        /\ ret[Observer] = RetBlock(blk[d][1].header.number,
                                    Some(StoredBlock(blk[d][1].header.number)), 197)

\* run() has returned out of store_next_block: the call failed or was
\* canceled.
StoppedInStore == runner_ret # "none" /\ runner_block # None

\* C22: a store_next_block that fails or is canceled leaves persisted_state,
\* queued_state and the queue as they are; from then on the block it was
\* called with stays at the head of the queue, persisted_state stays fixed,
\* block(n) returns that block from the queue, and a queue_block that
\* reaches its critical section with the next number still appends its
\* block and advances queued_state.
C22_FailureKeepsQueue ==
    /\ [](StoppedInStore
            => /\ queue # <<>>
               /\ queue[1] = runner_block[1]
               /\ queue[1].header.number = NextOf(persisted_state)
               /\ Contains(queued_state, queue[1].header.number))
    /\ [][/\ (runner_pc = "storing" /\ (StoreFail \/ RunnerCancel))
                => /\ UNCHANGED <<inner, store>>
                   /\ StoppedInStore'
          /\ StoppedInStore
                => /\ persisted_state' = persisted_state
                   /\ BlockCall(Observer, queue[1].header.number)
                         => ret'[Observer] = RetBlock(queue[1].header.number, Some(queue[1]), 197)
                   /\ \A c \in Queuers :
                         (QueueBlockCommit(c)
                             /\ StillNext(queued_state, blk[c][1].header.number))
                            => /\ ret'[c] = RetQueued(TRUE)
                               /\ queue' = Append(queue, blk[c][1])
                               /\ NextOf(queued_state') = NextOf(queued_state) + 1]_vars

\* store_next_block has failed, the block is still at the head of the queue
\* and has been read through block(n), and a queue_block is about to append
\* the next block.
C22_Witness ==
    /\ StoppedInStore
    /\ runner_ret = "Err"
    /\ queue # <<>>
    /\ ret[Observer] = RetBlock(queue[1].header.number, Some(queue[1]), 197)
    /\ \E c \in Queuers :
          /\ pc[c] = "q_commit"
          /\ StillNext(queued_state, blk[c][1].header.number)
          /\ blk[c][1].header.number = queue[1].header.number + 1

\* inbound has received a handshake that passed its three checks.
InboundPassed ==
    /\ in_h # None
    /\ InboundCheck(in_args, in_h[1]) = HsOk
    /\ in_h[1].genesis = in_args.genesis
    /\ in_h[1].session_id.msg = SessionIdOf(in_args.stream)
    /\ VerifySig(in_h[1].session_id)

\* C23: inbound sends its handshake only after the handshake it received
\* passed the genesis, session id and signature checks, and sends nothing
\* when a check fails; so outbound returns success against the honest
\* inbound side it expects only if that inbound run passed its checks and
\* returned success. The converse fails: inbound can have returned success
\* when outbound returns an error.
C23_SendAfterChecks ==
    /\ []((b2a # <<>> \/ in_pc = "send" \/ in_ret.kind = "Ok") => InboundPassed)
    /\ [](in_ret.kind \in HsErrors => b2a = <<>>)
    /\ []((out_ret = HsOk /\ out_args.peer = in_args.me)
            => /\ InboundPassed
               /\ in_ret.kind = "Ok"
               /\ b2a = <<SendProto(OwnHandshake(in_args))>>)
    /\ [][/\ b2a' # b2a => (InboundSend /\ InboundPassed)
          /\ \A h \in HandshakesOf(Deliverable) :
                (InboundReceives(h) /\ InboundCheck(in_args, h) # HsOk)
                   => /\ in_ret' = InboundCheck(in_args, h)
                      /\ in_pc' = "done"
                      /\ b2a' = b2a]_vars

\* inbound has accepted the handshake of outbound, sent its own and returned
\* success; outbound, expecting another key, has returned PeerMismatch.
C23_Witness ==
    /\ InboundPassed
    /\ in_h = Some(OwnHandshake(out_args))
    /\ in_ret = HsOkKey(out_args.me)
    /\ b2a = <<SendProto(OwnHandshake(in_args))>>
    /\ out_args.peer # in_args.me
    /\ out_ret = HsErr("PeerMismatch")

====
